---- MODULE Spec2Model ----
(***************************************************************************)
(* State-machine model of the Fastify user-management API of               *)
(* src/src/server.ts.  Every route handler is an async function: the code  *)
(* between two awaits runs atomically on the event loop, and each awaited  *)
(* Prisma call is one atomic operation of the relational store.  A request *)
(* is a record whose pc names the await it is suspended on.                *)
(*                                                                         *)
(* Rate limiting, helmet and the logging hooks (server.ts:27-35, 61-78)    *)
(* never change a reply within the bounds explored and are left out.       *)
(***************************************************************************)
EXTENDS Integers, Sequences, FiniteSets, TLC

VARIABLES users, nextId, now, reqs

vars == <<users, nextId, now, reqs>>

\* ---------------------------------------------------------------- bounds
\* Number of requests the clients send in one behaviour.
MaxReqs == 2
\* Number of times the wall clock advances.
MaxTicks == 1

\* ------------------------------------------------------ program constants
\* z.string().min(6)
MinPasswordLen == 6
\* bcrypt.hash(password, 10)
BcryptCost == 10
\* sign: { expiresIn: "1h" }, in seconds
TokenTTL == 60 * 60
\* setCookie maxAge
CookieMaxAge == 60 * 60
\* secret: process.env.JWT_SECRET || "super-secret-key"
JwtSecret == "super-secret-key"

\* ---------------------------------------------------------------- values
\* JavaScript null / undefined, an absent body, an absent cookie.
Null == <<>>

Emails == {"a@x.com", "b@x.com", "nope"}
WellFormedEmails == {"a@x.com", "b@x.com"}
Passwords == {"secret1", "secret2", "short"}
Salts == {1}
Digits == {"0", "1", "2", "3", "4", "5", "6", "7", "8", "9"}
DigitValue == [d \in Digits |->
    CASE d = "0" -> 0 [] d = "1" -> 1 [] d = "2" -> 2 [] d = "3" -> 3
      [] d = "4" -> 4 [] d = "5" -> 5 [] d = "6" -> 6 [] d = "7" -> 7
      [] d = "8" -> 8 [] d = "9" -> 9]
\* Path parameters :id, as sequences of characters.
PathIds == {<<"1">>, <<"2">>, <<"x">>}

\* z.string().email()
IsEmail(s) == s \in WellFormedEmails
\* z.string().min(6)
IsPassword(s) == Len(s) >= MinPasswordLen
\* z.string().regex(/^\d+$/)
IsDigits(s) == Len(s) >= 1 /\ \A i \in 1..Len(s) : s[i] \in Digits
\* Number(id) of a string of decimal digits
RECURSIVE Number(_)
Number(s) ==
    IF Len(s) = 0 THEN 0
    ELSE 10 * Number(SubSeq(s, 1, Len(s) - 1)) + DigitValue[s[Len(s)]]

\* ------------------------------------------------------------- bcrypt
\* The digest field stands for the one-way digest of (plaintext, salt).
BcryptHash(plaintext, salt) ==
    [alg |-> "bcrypt", cost |-> BcryptCost, salt |-> salt, digest |-> plaintext]
\* Variant: the candidate is hashed afresh and the two hashes are compared.
BcryptCompare_Rehash(plaintext, hash) ==
    BcryptHash(plaintext, hash.salt + 1) = hash
BcryptCompare(plaintext, hash) ==
    BcryptHash(plaintext, hash.salt) = hash

\* ---------------------------------------------------------------- JWT
JwtSign(userId) ==
    [userId |-> userId, iat |-> now, exp |-> now + TokenTTL, sig |-> JwtSecret]
MalformedToken == [malformed |-> TRUE]
ForgedToken == [userId |-> 1, iat |-> 0, exp |-> TokenTTL, sig |-> "other-key"]
\* request.jwtVerify(): well-formed, signed with the server secret, not expired.
JwtVerify(token) ==
    /\ DOMAIN token = {"userId", "iat", "exp", "sig"}
    /\ token.sig = JwtSecret
    /\ now < token.exp

\* ------------------------------------------------------------ replies
NoReply == [status |-> 0, body |-> Null, cookie |-> Null]
Reply(status, body) == [status |-> status, body |-> body, cookie |-> Null]
SessionCookie(token) ==
    [name |-> "token", value |-> token, httpOnly |-> TRUE, secure |-> FALSE,
     path |-> "/", maxAge |-> CookieMaxAge]
ReplyWithCookie(status, body, token) ==
    [status |-> status, body |-> body, cookie |-> SessionCookie(token)]
\* Fastify's default error handler: an error without statusCode is a 500.
InternalError(message) ==
    Reply(500, [statusCode |-> 500, error |-> "Internal Server Error",
                message |-> message])

\* ----------------------------------------------------------- requests
NewRequest(route, id, body, token, pc) ==
    [route |-> route, id |-> id, body |-> body, token |-> token, pc |-> pc,
     jwtUser |-> Null, user |-> Null, hashed |-> Null, err |-> "",
     dbCalls |-> 0, reply |-> NoReply]
\* The handler returns or sends a reply.
Respond(req, reply) == [req EXCEPT !.pc = "done", !.reply = reply]
\* An exception leaves the handler uncaught.
Throw(req, err) ==
    [req EXCEPT !.pc = "done", !.err = err, !.reply = InternalError(err)]
\* catch (err) { reply.status(400).send({ error: err.message }) }
Catch400(req, err) ==
    [req EXCEPT !.pc = "done", !.err = err, !.reply = Reply(400, [error |-> err])]
Accept(req) == Len(reqs) < MaxReqs /\ reqs' = Append(reqs, req)
At(r, route, pc) == reqs[r].route = route /\ reqs[r].pc = pc
Set(r, req) == reqs' = [reqs EXCEPT ![r] = req]
Called(req) == [req EXCEPT !.dbCalls = @ + 1]

\* -------------------------------------------------------------- store
\* prisma.user.findUnique({ where: { email } })
FindUniqueByEmail(email) ==
    IF \E u \in users : u.email = email
    THEN CHOOSE u \in users : u.email = email
    ELSE Null
\* prisma.user.findUnique({ where: { id } })
FindUniqueById(id) ==
    IF \E u \in users : u.id = id
    THEN CHOOSE u \in users : u.id = id
    ELSE Null
\* The row prisma.user.create inserts.
NewUser(email, passwordHash) ==
    [id |-> nextId, email |-> email, passwordHash |-> passwordHash,
     createdAt |-> now]
\* The unique constraint on email.
EmailFree(email, exceptId) ==
    \A u \in users : u.email = email => u.id = exceptId

SeedUser ==
    [id |-> 1, email |-> "a@x.com", passwordHash |-> BcryptHash("secret1", 1),
     createdAt |-> 0]

Init ==
    /\ users \in {{}, {SeedUser}}
    /\ nextId = Cardinality(users) + 1
    /\ now = 0
    /\ reqs = <<>>

\* ------------------------------------------------------------- clock
Tick ==
    /\ now < MaxTicks * TokenTTL
    /\ now' = now + TokenTTL
    /\ UNCHANGED <<users, nextId, reqs>>

\* --------------------------------------------------- POST /auth/signup
AuthBodies ==
    {b \in [email : Emails, password : Passwords] :
        \/ IsEmail(b.email) /\ IsPassword(b.password)
        \/ b.email = "a@x.com"
        \/ b.password = "secret1"}
ValidAuthBody(b) == IsEmail(b.email) /\ IsPassword(b.password)

EmailExistsReply == Reply(400, [error |-> "Email already exists"])

SignupReceive ==
    \E b \in AuthBodies :
        /\ Accept(IF ValidAuthBody(b)
                  THEN NewRequest("POST /auth/signup", Null, b, Null, "find")
                  ELSE Throw(NewRequest("POST /auth/signup", Null, b, Null, "start"),
                             "ZodError"))
        /\ UNCHANGED <<users, nextId, now>>

\* Variant: the handler does not return when the email is taken.
SignupFind_NoReturn(r) ==
    /\ At(r, "POST /auth/signup", "find")
    /\ Set(r, [Called(reqs[r]) EXCEPT !.pc = "hash"])
    /\ UNCHANGED <<users, nextId, now>>

SignupFind(r) ==
    /\ At(r, "POST /auth/signup", "find")
    /\ LET req == Called(reqs[r])
           isUserExist == FindUniqueByEmail(req.body.email)
       IN  IF isUserExist # Null
           THEN Set(r, Respond([req EXCEPT !.user = isUserExist], EmailExistsReply))
           ELSE Set(r, [req EXCEPT !.pc = "hash"])
    /\ UNCHANGED <<users, nextId, now>>

SignupHash(r) ==
    /\ At(r, "POST /auth/signup", "hash")
    /\ \E salt \in Salts :
          Set(r, [reqs[r] EXCEPT !.pc = "create",
                                 !.hashed = BcryptHash(reqs[r].body.password, salt)])
    /\ UNCHANGED <<users, nextId, now>>

SignupCreate(r) ==
    /\ At(r, "POST /auth/signup", "create")
    /\ LET req == Called(reqs[r])
           user == NewUser(req.body.email, req.hashed)
       IN  IF EmailFree(req.body.email, 0)
           THEN /\ users' = users \cup {user}
                /\ nextId' = nextId + 1
                /\ Set(r, Respond([req EXCEPT !.user = user],
                          ReplyWithCookie(201, [id |-> user.id, email |-> user.email],
                                          JwtSign(user.id))))
           ELSE /\ Set(r, Throw(req, "P2002"))
                /\ UNCHANGED <<users, nextId>>
    /\ UNCHANGED now

\* ---------------------------------------------------- POST /auth/login
LoginNoUserReply == Reply(401, [error |-> "Invalid credentials"])
\* Variant: the password mismatch has a message of its own.
LoginBadPasswordReply_Distinct == Reply(401, [error |-> "Wrong password"])
LoginBadPasswordReply == Reply(401, [error |-> "Invalid credentials"])

LoginReceive ==
    \E b \in AuthBodies :
        /\ Accept(IF ValidAuthBody(b)
                  THEN NewRequest("POST /auth/login", Null, b, Null, "find")
                  ELSE Throw(NewRequest("POST /auth/login", Null, b, Null, "start"),
                             "ZodError"))
        /\ UNCHANGED <<users, nextId, now>>

LoginFind(r) ==
    /\ At(r, "POST /auth/login", "find")
    /\ LET req == Called(reqs[r])
           user == FindUniqueByEmail(req.body.email)
       IN  IF user = Null
           THEN Set(r, Respond(req, LoginNoUserReply))
           ELSE Set(r, [req EXCEPT !.pc = "compare", !.user = user])
    /\ UNCHANGED <<users, nextId, now>>

LoginCompare(r) ==
    /\ At(r, "POST /auth/login", "compare")
    /\ LET req == reqs[r]
           isValid == BcryptCompare(req.body.password, req.user.passwordHash)
       IN  IF ~isValid
           THEN Set(r, Respond(req, LoginBadPasswordReply))
           ELSE Set(r, Respond(req,
                       ReplyWithCookie(200, [id |-> req.user.id, email |-> req.user.email],
                                       JwtSign(req.user.id))))
    /\ UNCHANGED <<users, nextId, now>>

\* --------------------------------------------------------- POST /users
UserBodies ==
    {b \in [email : Emails, passwordHash : Passwords] :
        \/ IsEmail(b.email) /\ IsPassword(b.passwordHash)
        \/ b.email = "a@x.com"
        \/ b.passwordHash = "secret1"}
ValidUserBody(b) == IsEmail(b.email) /\ IsPassword(b.passwordHash)

\* const { passwordHash: _, ...userWithoutPassword } = user
WithoutPassword(user) ==
    [f \in DOMAIN user \ {"passwordHash"} |-> user[f]]

CreateUserReceive ==
    \E b \in UserBodies :
        /\ Accept(IF ValidUserBody(b)
                  THEN NewRequest("POST /users", Null, b, Null, "hash")
                  ELSE Catch400(NewRequest("POST /users", Null, b, Null, "start"),
                                "ZodError"))
        /\ UNCHANGED <<users, nextId, now>>

CreateUserHash(r) ==
    /\ At(r, "POST /users", "hash")
    /\ \E salt \in Salts :
          Set(r, [reqs[r] EXCEPT !.pc = "create",
                                 !.hashed = BcryptHash(reqs[r].body.passwordHash, salt)])
    /\ UNCHANGED <<users, nextId, now>>

CreateUserCreate(r) ==
    /\ At(r, "POST /users", "create")
    /\ LET req == Called(reqs[r])
           user == NewUser(req.body.email, req.hashed)
       IN  IF EmailFree(req.body.email, 0)
           THEN /\ users' = users \cup {user}
                /\ nextId' = nextId + 1
                /\ Set(r, Respond([req EXCEPT !.user = user],
                                  Reply(201, WithoutPassword(user))))
           ELSE /\ Set(r, Catch400(req, "P2002"))
                /\ UNCHANGED <<users, nextId>>
    /\ UNCHANGED now

\* ---------------------------------------------------------- GET /users
\* select: { id: true, email: true, createdAt: true }
\* Variant: the query names no select and returns the whole row.
SelectPublic_WholeRow(user) == user
SelectPublic(user) ==
    [id |-> user.id, email |-> user.email, createdAt |-> user.createdAt]

ListUsersReceive ==
    /\ Accept(NewRequest("GET /users", Null, Null, Null, "list"))
    /\ UNCHANGED <<users, nextId, now>>

ListUsersFindMany(r) ==
    /\ At(r, "GET /users", "list")
    /\ Set(r, Respond(Called(reqs[r]),
                      Reply(200, [items |-> {SelectPublic(u) : u \in users}])))
    /\ UNCHANGED <<users, nextId, now>>

\* ------------------------------------------------------ GET /users/:id
UserNotFoundReply == Reply(404, [error |-> "User not found"])

GetUserReceive ==
    \E id \in PathIds :
        /\ Accept(IF IsDigits(id)
                  THEN NewRequest("GET /users/:id", id, Null, Null, "find")
                  ELSE Throw(NewRequest("GET /users/:id", id, Null, Null, "start"),
                             "ZodError"))
        /\ UNCHANGED <<users, nextId, now>>

GetUserFind(r) ==
    /\ At(r, "GET /users/:id", "find")
    /\ LET req == Called(reqs[r])
           found == FindUniqueById(Number(req.id))
       IN  IF found = Null
           THEN Set(r, Respond(req, UserNotFoundReply))
           ELSE Set(r, Respond([req EXCEPT !.user = found],
                               Reply(200, SelectPublic(found))))
    /\ UNCHANGED <<users, nextId, now>>

\* ---------------------------------------------------- PATCH /users/:id
PatchBodies ==
    {Null, [email |-> "a@x.com"], [email |-> "b@x.com"], [email |-> "nope"],
     [passwordHash |-> "secret2"]}
PatchInputs ==
    {in \in [id : PathIds, body : PatchBodies] :
        IsDigits(in.id) \/ in.body = Null}
ValidPatchBody(b) ==
    /\ "email" \in DOMAIN b => IsEmail(b.email)
    /\ "passwordHash" \in DOMAIN b => IsPassword(b.passwordHash)

UpdateUserReceive ==
    \E in \in PatchInputs :
        /\ Accept(IF IsDigits(in.id) /\ ValidPatchBody(in.body)
                  THEN NewRequest("PATCH /users/:id", in.id, in.body, Null,
                                  IF "passwordHash" \in DOMAIN in.body
                                  THEN "hash" ELSE "update")
                  ELSE Catch400(NewRequest("PATCH /users/:id", in.id, in.body,
                                           Null, "start"), "ZodError"))
        /\ UNCHANGED <<users, nextId, now>>

UpdateUserHash(r) ==
    /\ At(r, "PATCH /users/:id", "hash")
    /\ \E salt \in Salts :
          Set(r, [reqs[r] EXCEPT !.pc = "update",
                                 !.hashed = BcryptHash(reqs[r].body.passwordHash, salt)])
    /\ UNCHANGED <<users, nextId, now>>

\* The row after prisma.user.update applied data to it.
Updated(user, req) ==
    [user EXCEPT !.email = IF "email" \in DOMAIN req.body
                           THEN req.body.email ELSE @,
                 !.passwordHash = IF req.hashed # Null THEN req.hashed ELSE @]

UpdateUserUpdate(r) ==
    /\ At(r, "PATCH /users/:id", "update")
    /\ LET req == Called(reqs[r])
           old == FindUniqueById(Number(req.id))
       IN  IF old = Null
           THEN /\ Set(r, Catch400(req, "P2025"))
                /\ UNCHANGED users
           ELSE IF ~EmailFree(Updated(old, req).email, old.id)
           THEN /\ Set(r, Catch400(req, "P2002"))
                /\ UNCHANGED users
           ELSE /\ users' = (users \ {old}) \cup {Updated(old, req)}
                /\ Set(r, Respond([req EXCEPT !.user = Updated(old, req)],
                                  Reply(200, SelectPublic(Updated(old, req)))))
    /\ UNCHANGED <<nextId, now>>

\* --------------------------------------------------- DELETE /users/:id
DeletedReply == Reply(204, Null)

DeleteUserReceive ==
    \E id \in PathIds :
        /\ Accept(IF IsDigits(id)
                  THEN NewRequest("DELETE /users/:id", id, Null, Null, "delete")
                  ELSE Throw(NewRequest("DELETE /users/:id", id, Null, Null, "start"),
                             "ZodError"))
        /\ UNCHANGED <<users, nextId, now>>

\* What prisma.user.delete({ where: { id } }) leaves in the table.
StoreDelete(id) == {u \in users : u.id # id}

\* Variant: the delete does not fail on a missing row (deleteMany).
DeleteUserDelete_Many(r) ==
    /\ At(r, "DELETE /users/:id", "delete")
    /\ users' = StoreDelete(Number(reqs[r].id))
    /\ Set(r, Respond(Called(reqs[r]), DeletedReply))
    /\ UNCHANGED <<nextId, now>>

DeleteUserDelete(r) ==
    /\ At(r, "DELETE /users/:id", "delete")
    /\ LET req == Called(reqs[r])
           old == FindUniqueById(Number(req.id))
       IN  IF old # Null
           THEN /\ users' = StoreDelete(Number(req.id))
                /\ Set(r, Respond([req EXCEPT !.user = old], DeletedReply))
           ELSE /\ Set(r, Respond([req EXCEPT !.err = "P2025"], UserNotFoundReply))
                /\ UNCHANGED users
    /\ UNCHANGED <<nextId, now>>

\* ------------------------------------------------------------- GET /me
\* The tokens a client can present: none, garbage, one signed with another
\* key, or the value of a session cookie the server has set.
IssuedTokens ==
    {reqs[i].reply.cookie.value : i \in {j \in DOMAIN reqs : reqs[j].reply.cookie # Null}}
ClientTokens == {Null, MalformedToken, ForgedToken} \cup IssuedTokens

\* The authenticate decorator: request.jwtVerify() sets request.user, and a
\* failure is sent as the reply.
Authenticate(req) ==
    IF req.token # Null /\ JwtVerify(req.token)
    THEN [req EXCEPT !.jwtUser = [userId |-> req.token.userId]]
    ELSE Respond([req EXCEPT !.err = "Unauthorized"],
                 Reply(401, [statusCode |-> 401, error |-> "Unauthorized",
                             message |-> "Unauthorized"]))
\* app.get('/me', handler) names no preHandler.
MePreHandler(req) == req

MeReceive ==
    \E token \in ClientTokens :
        /\ Accept(MePreHandler(NewRequest("GET /me", Null, Null, token, "find")))
        /\ UNCHANGED <<users, nextId, now>>

\* findUnique({ where: { id: undefined } }) is rejected by the Prisma client.
MeFind(r) ==
    /\ At(r, "GET /me", "find")
    /\ LET req == Called(reqs[r])
       IN  IF req.jwtUser = Null
           THEN Set(r, Throw(req, "PrismaClientValidationError"))
           ELSE LET user == FindUniqueById(req.jwtUser.userId)
                IN  Set(r, Respond([req EXCEPT !.user = user], Reply(200, user)))
    /\ UNCHANGED <<users, nextId, now>>

Next ==
    \/ Tick
    \/ SignupReceive
    \/ \E r \in DOMAIN reqs : SignupFind(r)
    \/ \E r \in DOMAIN reqs : SignupHash(r)
    \/ \E r \in DOMAIN reqs : SignupCreate(r)
    \/ LoginReceive
    \/ \E r \in DOMAIN reqs : LoginFind(r)
    \/ \E r \in DOMAIN reqs : LoginCompare(r)
    \/ CreateUserReceive
    \/ \E r \in DOMAIN reqs : CreateUserHash(r)
    \/ \E r \in DOMAIN reqs : CreateUserCreate(r)
    \/ ListUsersReceive
    \/ \E r \in DOMAIN reqs : ListUsersFindMany(r)
    \/ GetUserReceive
    \/ \E r \in DOMAIN reqs : GetUserFind(r)
    \/ UpdateUserReceive
    \/ \E r \in DOMAIN reqs : UpdateUserHash(r)
    \/ \E r \in DOMAIN reqs : UpdateUserUpdate(r)
    \/ DeleteUserReceive
    \/ \E r \in DOMAIN reqs : DeleteUserDelete(r)
    \/ MeReceive
    \/ \E r \in DOMAIN reqs : MeFind(r)

Spec == Init /\ [][Next]_vars

\* ===================================================================
\* Properties
\* ===================================================================
Done(i) == reqs[i].pc = "done"
IsRoute(i, route) == reqs[i].route = route
\* The request arrived in this step.
Arrives(i) == i \in DOMAIN reqs' /\ i \notin DOMAIN reqs
\* Request i takes a step of its handler.
Steps(i, pc) == reqs[i].pc = pc /\ reqs'[i] # reqs[i]
Registered(email) == \E u \in users : u.email = email

\* C1: a GET /me request whose token is absent or invalid (malformed, badly
\* signed or expired) is answered 401 on arrival and its handler never runs:
\* no store lookup is made for it and no user is returned.
C1_MeRejectsBadToken ==
    [][\A i \in DOMAIN reqs' :
          (Arrives(i) /\ reqs'[i].route = "GET /me" /\ ~JwtVerify(reqs'[i].token))
          => /\ reqs'[i].pc = "done"
             /\ reqs'[i].reply.status = 401
             /\ reqs'[i].dbCalls = 0]_vars

\* C2: of concurrent signups for one email, the store keeps one user and the
\* signup whose create loses to the unique constraint is answered with the
\* duplicate-email 400 reply.
C2_SignupRaceLoserGets400 ==
    /\ \A u, v \in users : u.email = v.email => u = v
    /\ \A i, j \in DOMAIN reqs :
          (/\ IsRoute(i, "POST /auth/signup") /\ IsRoute(j, "POST /auth/signup")
           /\ Done(i) /\ Done(j)
           /\ reqs[i].body.email = reqs[j].body.email
           /\ reqs[i].reply.status = 201
           /\ reqs[j].err = "P2002")
          => reqs[j].reply = Reply(400, [error |-> "Email already exists"])

\* The request's body or path parameter does not have the shape its route
\* validates.
InvalidShape(req) ==
    \/ req.route \in {"POST /auth/signup", "POST /auth/login"}
       /\ ~(IsEmail(req.body.email) /\ IsPassword(req.body.password))
    \/ req.route = "POST /users"
       /\ ~(IsEmail(req.body.email) /\ IsPassword(req.body.passwordHash))
    \/ req.route \in {"GET /users/:id", "DELETE /users/:id"} /\ ~IsDigits(req.id)
    \/ req.route = "PATCH /users/:id"
       /\ (~IsDigits(req.id) \/ ~ValidPatchBody(req.body))

\* C3: every request with an invalid body or path shape is answered 400
\* before any store access.
C3_InvalidShapeIs400 ==
    \A i \in DOMAIN reqs :
        InvalidShape(reqs[i])
        => Done(i) /\ reqs[i].reply.status = 400 /\ reqs[i].dbCalls = 0

\* C4: a GET /me request carrying an unexpired token issued by signup or
\* login, for a user that still exists, is answered 200 with the record of
\* the user the token names, the decoded userId attached to the request.
C4_MeReturnsTokenUser ==
    \A i \in DOMAIN reqs :
        (/\ IsRoute(i, "GET /me") /\ Done(i)
         /\ reqs[i].token \in IssuedTokens
         /\ JwtVerify(reqs[i].token)
         /\ FindUniqueById(reqs[i].token.userId) # Null)
        => /\ reqs[i].reply.status = 200
           /\ reqs[i].jwtUser # Null
           /\ reqs[i].jwtUser.userId = reqs[i].token.userId
           /\ reqs[i].reply.body # Null
           /\ reqs[i].reply.body.id = reqs[i].token.userId

UserRoutes ==
    {"POST /auth/signup", "POST /auth/login", "POST /users", "GET /users",
     "GET /users/:id", "PATCH /users/:id", "GET /me"}
ExposesHash(body) ==
    \/ "passwordHash" \in DOMAIN body
    \/ "items" \in DOMAIN body
       /\ \E x \in body.items : "passwordHash" \in DOMAIN x

\* C5: no reply of an endpoint that returns a User carries passwordHash.
C5_NoPasswordHashInReplies ==
    \A i \in DOMAIN reqs :
        (reqs[i].route \in UserRoutes /\ Done(i)) => ~ExposesHash(reqs[i].reply.body)

\* A user was returned by a single-user route and by the list route, and the
\* stored rows carry a hash.
C5_Witness ==
    /\ \E i \in DOMAIN reqs :
          /\ IsRoute(i, "GET /users/:id") /\ Done(i) /\ reqs[i].reply.status = 200
          /\ \E u \in users : u.id = reqs[i].reply.body.id /\ "passwordHash" \in DOMAIN u
    /\ \E i \in DOMAIN reqs :
          /\ IsRoute(i, "GET /users") /\ Done(i) /\ reqs[i].reply.body.items # {}

\* C6: when a signup's uniqueness check runs and its email is registered, the
\* signup ends with the 400 "Email already exists" reply, whatever its
\* password; the store is unchanged and no cookie is set.
C6_SignupRegisteredEmailIs400 ==
    [][\A i \in DOMAIN reqs :
          (/\ IsRoute(i, "POST /auth/signup") /\ Steps(i, "find")
           /\ Registered(reqs[i].body.email))
          => /\ reqs'[i].pc = "done"
             /\ reqs'[i].reply.status = 400
             /\ reqs'[i].reply.body = [error |-> "Email already exists"]
             /\ reqs'[i].reply.cookie = Null
             /\ users' = users /\ nextId' = nextId]_vars

\* A signup was refused for a registered email although its password is not
\* the registered user's.
C6_Witness ==
    \E i \in DOMAIN reqs :
        /\ IsRoute(i, "POST /auth/signup") /\ Done(i)
        /\ reqs[i].reply.status = 400
        /\ reqs[i].user \in users
        /\ reqs[i].user.email = reqs[i].body.email
        /\ ~BcryptCompare(reqs[i].body.password, reqs[i].user.passwordHash)

LoginUnknownEmail(i) ==
    /\ IsRoute(i, "POST /auth/login") /\ Done(i)
    /\ ValidAuthBody(reqs[i].body) /\ reqs[i].user = Null
LoginWrongPassword(i) ==
    /\ IsRoute(i, "POST /auth/login") /\ Done(i)
    /\ reqs[i].user # Null
    /\ reqs[i].user.passwordHash.digest # reqs[i].body.password

\* C7: a login for an unknown email and a login with a wrong password get
\* the same reply: status 401 and the same body and headers.
C7_LoginFailuresIndistinguishable ==
    \A i, j \in DOMAIN reqs :
        (LoginUnknownEmail(i) /\ LoginWrongPassword(j))
        => reqs[i].reply = reqs[j].reply /\ reqs[i].reply.status = 401

C7_Witness ==
    \E i, j \in DOMAIN reqs : LoginUnknownEmail(i) /\ LoginWrongPassword(j)

\* Signup s was answered 201 and login l presents the same credentials.
SameCredentials(s, l) ==
    /\ IsRoute(s, "POST /auth/signup") /\ Done(s) /\ reqs[s].reply.status = 201
    /\ IsRoute(l, "POST /auth/login")
    /\ reqs[l].body = reqs[s].body

\* C8: after a signup answered 201 with id i, a login with the same email and
\* password finds the user the signup created while that row is unchanged in
\* the store, and is answered 200 with the same id and email and a session
\* cookie whose token carries userId i.
C8_SignupThenLogin ==
    [][\A s, l \in DOMAIN reqs :
          /\ (SameCredentials(s, l) /\ Steps(l, "find") /\ reqs[s].user \in users)
             => reqs'[l].pc = "compare" /\ reqs'[l].user = reqs[s].user
          /\ (SameCredentials(s, l) /\ Steps(l, "compare")
              /\ reqs[l].user = reqs[s].user)
             => /\ reqs'[l].pc = "done"
                /\ reqs'[l].reply.status = 200
                /\ reqs'[l].reply.body
                     = [id |-> reqs[s].reply.body.id, email |-> reqs[s].body.email]
                /\ reqs'[l].reply.cookie # Null
                /\ reqs'[l].reply.cookie.value.userId = reqs[s].reply.body.id]_vars

C8_Witness ==
    \E s, l \in DOMAIN reqs :
        /\ SameCredentials(s, l) /\ Done(l)
        /\ reqs[l].reply.status = 200
        /\ reqs[l].reply.body.id = reqs[s].reply.body.id
        /\ reqs[l].reply.cookie.value.userId = reqs[s].reply.body.id

\* C9: GET, PATCH and DELETE of /users/:id with a well-formed id that names
\* no user are each answered 404.
C9_NotFoundIs404 ==
    \A i \in DOMAIN reqs :
        (/\ Done(i) /\ ~InvalidShape(reqs[i])
         /\ \/ IsRoute(i, "GET /users/:id") /\ reqs[i].user = Null
            \/ IsRoute(i, "PATCH /users/:id") /\ reqs[i].err = "P2025"
            \/ IsRoute(i, "DELETE /users/:id") /\ reqs[i].err = "P2025")
        => reqs[i].reply.status = 404

\* C10: a DELETE is answered 204 with an empty body, removing exactly the
\* user it names, if and only if that id exists when the store delete runs,
\* and 404 otherwise; no two DELETEs of one id are both answered 204.
C10_DeleteOnce ==
    [][\A i \in DOMAIN reqs :
          (IsRoute(i, "DELETE /users/:id") /\ Steps(i, "delete"))
          => LET id == Number(reqs[i].id)
             IN  IF \E u \in users : u.id = id
                 THEN /\ reqs'[i].reply = [status |-> 204, body |-> Null, cookie |-> Null]
                      /\ users' = {u \in users : u.id # id}
                      /\ Cardinality(users') = Cardinality(users) - 1
                      /\ \A j \in DOMAIN reqs :
                            (j # i /\ IsRoute(j, "DELETE /users/:id")
                             /\ reqs[j].id = reqs[i].id)
                            => reqs[j].reply.status # 204
                 ELSE /\ reqs'[i].reply.status = 404
                      /\ users' = users]_vars

\* The same id was deleted twice: 204, then 404.
C10_Witness ==
    \E i, j \in DOMAIN reqs :
        /\ i < j
        /\ IsRoute(i, "DELETE /users/:id") /\ IsRoute(j, "DELETE /users/:id")
        /\ reqs[i].id = reqs[j].id
        /\ reqs[i].reply.status = 204 /\ reqs[j].reply.status = 404

====
